---- MODULE Spec2Model ----
(***************************************************************************)
(* CodeEditorUtils (src/domain/entities/CodeEditor.ts): language          *)
(* detection, language metadata, previews, truncation and snippet         *)
(* validation.                                                            *)
(*                                                                        *)
(* A JavaScript string is modelled as the sequence of its characters,     *)
(* each character a one-character TLA+ string: 'ts' is <<"t", "s">>.      *)
(* A JavaScript value that is not a string is a sequence whose single     *)
(* element is not one character, so that it equals no string.             *)
(***************************************************************************)
EXTENDS Integers, Sequences, FiniteSets, TLC

VARIABLES
  pc,        \* "call" while a CodeEditorUtils method runs, "return" after it
  request,   \* the method called and its arguments
  result,    \* the value it returned
  tables,    \* the exported constant objects of the module
  history,   \* the earlier calls of the caller, each with its result
  props,     \* the props CodeBlock was last rendered with
  presses,   \* for each press of the Copy button, how far handleCopy got
  toasts     \* the toasts shown, oldest first

utilsVars == <<pc, request, result, tables, history>>

blockVars == <<props, presses, toasts>>

vars == <<utilsVars, blockVars>>

----------------------------------------------------------------------------
(* JavaScript values and built-in string and array methods                 *)

Undefined == <<"undefined">>

ObjectConstructor == <<"[Function: Object]">>

ObjectPrototypeObject == <<"[Object: null prototype] {}">>

LowerCaseLetters == <<"a", "b", "c", "d", "e", "f", "g", "h", "i", "j", "k", "l", "m", "n", "o", "p", "q", "r", "s", "t", "u", "v", "w", "x", "y", "z">>

UpperCaseLetters == <<"A", "B", "C", "D", "E", "F", "G", "H", "I", "J", "K", "L", "M", "N", "O", "P", "Q", "R", "S", "T", "U", "V", "W", "X", "Y", "Z">>

\* String.prototype.toLowerCase on one character
toLowerCaseChar(c) ==
  IF \E i \in 1..Len(UpperCaseLetters) : UpperCaseLetters[i] = c
    THEN LowerCaseLetters[CHOOSE i \in 1..Len(UpperCaseLetters) : UpperCaseLetters[i] = c]
    ELSE c

\* String.prototype.toLowerCase
toLowerCase(s) == [i \in 1..Len(s) |-> toLowerCaseChar(s[i])]

\* String.prototype.toUpperCase on one character
toUpperCaseChar(c) ==
  IF \E i \in 1..Len(LowerCaseLetters) : LowerCaseLetters[i] = c
    THEN UpperCaseLetters[CHOOSE i \in 1..Len(LowerCaseLetters) : LowerCaseLetters[i] = c]
    ELSE c

\* String.prototype.toUpperCase
toUpperCase(s) == [i \in 1..Len(s) |-> toUpperCaseChar(s[i])]

\* String.prototype.lastIndexOf for a one-character needle: the 0-based
\* offset of its last occurrence, -1 when there is none
lastIndexOf(s, c) ==
  LET hits == {i \in 1..Len(s) : s[i] = c}
  IN  IF hits = {} THEN -1
      ELSE (CHOOSE i \in hits : \A j \in hits : j <= i) - 1

\* String.prototype.substring(start, end) for 0 <= start <= end, end
\* clamped to the length
substring(s, start, end) ==
  SubSeq(s, start + 1, IF end > Len(s) THEN Len(s) ELSE end)

\* String.prototype.split(sep) for a one-character separator: the array of
\* the segments between the separators, never empty
RECURSIVE split(_, _)
split(s, sep) ==
  LET last == lastIndexOf(s, sep)
  IN  IF last = -1 THEN <<s>>
      ELSE Append(split(substring(s, 0, last), sep),
                  substring(s, last + 1, Len(s)))

\* Array.prototype.pop: the last element, undefined for an empty array
pop(a) == IF Len(a) = 0 THEN Undefined ELSE a[Len(a)]

\* Array.prototype.slice(0, end) for end >= 0
slice(a, end) == SubSeq(a, 1, IF end > Len(a) THEN Len(a) ELSE end)

\* Array.prototype.join(sep)
RECURSIVE join(_, _)
join(a, sep) ==
  IF Len(a) = 0 THEN <<>>
  ELSE IF Len(a) = 1 THEN a[1]
  ELSE join(SubSeq(a, 1, Len(a) - 1), sep) \o sep \o a[Len(a)]

\* ToBoolean of a string or of undefined: '' and undefined are falsy
Truthy(v) == v # Undefined /\ v # <<>>

\* The properties every object literal inherits from Object.prototype,
\* each with the value of its own 'name' property (undefined for the
\* accessor __proto__, whose value is Object.prototype itself)
ObjectPrototype ==
  <<
     <<<<"c", "o", "n", "s", "t", "r", "u", "c", "t", "o", "r">>, <<"O", "b", "j", "e", "c", "t">>>>,
     <<<<"_", "_", "d", "e", "f", "i", "n", "e", "G", "e", "t", "t", "e", "r", "_", "_">>, <<"_", "_", "d", "e", "f", "i", "n", "e", "G", "e", "t", "t", "e", "r", "_", "_">>>>,
     <<<<"_", "_", "d", "e", "f", "i", "n", "e", "S", "e", "t", "t", "e", "r", "_", "_">>, <<"_", "_", "d", "e", "f", "i", "n", "e", "S", "e", "t", "t", "e", "r", "_", "_">>>>,
     <<<<"h", "a", "s", "O", "w", "n", "P", "r", "o", "p", "e", "r", "t", "y">>, <<"h", "a", "s", "O", "w", "n", "P", "r", "o", "p", "e", "r", "t", "y">>>>,
     <<<<"_", "_", "l", "o", "o", "k", "u", "p", "G", "e", "t", "t", "e", "r", "_", "_">>, <<"_", "_", "l", "o", "o", "k", "u", "p", "G", "e", "t", "t", "e", "r", "_", "_">>>>,
     <<<<"_", "_", "l", "o", "o", "k", "u", "p", "S", "e", "t", "t", "e", "r", "_", "_">>, <<"_", "_", "l", "o", "o", "k", "u", "p", "S", "e", "t", "t", "e", "r", "_", "_">>>>,
     <<<<"i", "s", "P", "r", "o", "t", "o", "t", "y", "p", "e", "O", "f">>, <<"i", "s", "P", "r", "o", "t", "o", "t", "y", "p", "e", "O", "f">>>>,
     <<<<"p", "r", "o", "p", "e", "r", "t", "y", "I", "s", "E", "n", "u", "m", "e", "r", "a", "b", "l", "e">>, <<"p", "r", "o", "p", "e", "r", "t", "y", "I", "s", "E", "n", "u", "m", "e", "r", "a", "b", "l", "e">>>>,
     <<<<"t", "o", "S", "t", "r", "i", "n", "g">>, <<"t", "o", "S", "t", "r", "i", "n", "g">>>>,
     <<<<"v", "a", "l", "u", "e", "O", "f">>, <<"v", "a", "l", "u", "e", "O", "f">>>>,
     <<<<"_", "_", "p", "r", "o", "t", "o", "_", "_">>, Undefined>>,
     <<<<"t", "o", "L", "o", "c", "a", "l", "e", "S", "t", "r", "i", "n", "g">>, <<"t", "o", "L", "o", "c", "a", "l", "e", "S", "t", "r", "i", "n", "g">>>>
  >>

\* The keys of an object literal, in the order written
Keys(obj) == {obj[i][1] : i \in 1..Len(obj)}

\* The value an object literal holds for an own key (the last one written)
OwnValue(obj, key) ==
  obj[CHOOSE i \in 1..Len(obj) :
        /\ obj[i][1] = key
        /\ \A j \in 1..Len(obj) : obj[j][1] = key => j <= i][2]

----------------------------------------------------------------------------
(* Types and constants                                                     *)

ProgrammingLanguage ==
  {
   <<"t", "y", "p", "e", "s", "c", "r", "i", "p", "t">>,
   <<"j", "a", "v", "a", "s", "c", "r", "i", "p", "t">>,
   <<"p", "y", "t", "h", "o", "n">>,
   <<"j", "a", "v", "a">>,
   <<"c", "s", "h", "a", "r", "p">>,
   <<"c", "p", "p">>,
   <<"c">>,
   <<"s", "w", "i", "f", "t">>,
   <<"k", "o", "t", "l", "i", "n">>,
   <<"g", "o">>,
   <<"r", "u", "s", "t">>,
   <<"p", "h", "p">>,
   <<"r", "u", "b", "y">>,
   <<"h", "t", "m", "l">>,
   <<"c", "s", "s">>,
   <<"s", "c", "s", "s">>,
   <<"j", "s", "o", "n">>,
   <<"x", "m", "l">>,
   <<"y", "a", "m", "l">>,
   <<"m", "a", "r", "k", "d", "o", "w", "n">>,
   <<"s", "q", "l">>,
   <<"b", "a", "s", "h">>,
   <<"s", "h", "e", "l", "l">>,
   <<"d", "o", "c", "k", "e", "r", "f", "i", "l", "e">>,
   <<"p", "l", "a", "i", "n", "t", "e", "x", "t">>
  }

LANGUAGE_INFO ==
  <<
     <<<<"t", "y", "p", "e", "s", "c", "r", "i", "p", "t">>,
       [name |-> <<"T", "y", "p", "e", "S", "c", "r", "i", "p", "t">>,
        extension |-> <<".", "t", "s">>,
        icon |-> <<"F", "i", "l", "e", "C", "o", "d", "e">>]>>,
     <<<<"j", "a", "v", "a", "s", "c", "r", "i", "p", "t">>,
       [name |-> <<"J", "a", "v", "a", "S", "c", "r", "i", "p", "t">>,
        extension |-> <<".", "j", "s">>,
        icon |-> <<"F", "i", "l", "e", "C", "o", "d", "e">>]>>,
     <<<<"p", "y", "t", "h", "o", "n">>,
       [name |-> <<"P", "y", "t", "h", "o", "n">>,
        extension |-> <<".", "p", "y">>,
        icon |-> <<"F", "i", "l", "e", "C", "o", "d", "e">>]>>,
     <<<<"j", "a", "v", "a">>,
       [name |-> <<"J", "a", "v", "a">>,
        extension |-> <<".", "j", "a", "v", "a">>,
        icon |-> <<"F", "i", "l", "e", "C", "o", "d", "e">>]>>,
     <<<<"c", "s", "h", "a", "r", "p">>,
       [name |-> <<"C", "#">>,
        extension |-> <<".", "c", "s">>,
        icon |-> <<"F", "i", "l", "e", "C", "o", "d", "e">>]>>,
     <<<<"c", "p", "p">>,
       [name |-> <<"C", "+", "+">>,
        extension |-> <<".", "c", "p", "p">>,
        icon |-> <<"F", "i", "l", "e", "C", "o", "d", "e">>]>>,
     <<<<"c">>,
       [name |-> <<"C">>,
        extension |-> <<".", "c">>,
        icon |-> <<"F", "i", "l", "e", "C", "o", "d", "e">>]>>,
     <<<<"s", "w", "i", "f", "t">>,
       [name |-> <<"S", "w", "i", "f", "t">>,
        extension |-> <<".", "s", "w", "i", "f", "t">>,
        icon |-> <<"F", "i", "l", "e", "C", "o", "d", "e">>]>>,
     <<<<"k", "o", "t", "l", "i", "n">>,
       [name |-> <<"K", "o", "t", "l", "i", "n">>,
        extension |-> <<".", "k", "t">>,
        icon |-> <<"F", "i", "l", "e", "C", "o", "d", "e">>]>>,
     <<<<"g", "o">>,
       [name |-> <<"G", "o">>,
        extension |-> <<".", "g", "o">>,
        icon |-> <<"F", "i", "l", "e", "C", "o", "d", "e">>]>>,
     <<<<"r", "u", "s", "t">>,
       [name |-> <<"R", "u", "s", "t">>,
        extension |-> <<".", "r", "s">>,
        icon |-> <<"F", "i", "l", "e", "C", "o", "d", "e">>]>>,
     <<<<"p", "h", "p">>,
       [name |-> <<"P", "H", "P">>,
        extension |-> <<".", "p", "h", "p">>,
        icon |-> <<"F", "i", "l", "e", "C", "o", "d", "e">>]>>,
     <<<<"r", "u", "b", "y">>,
       [name |-> <<"R", "u", "b", "y">>,
        extension |-> <<".", "r", "b">>,
        icon |-> <<"F", "i", "l", "e", "C", "o", "d", "e">>]>>,
     <<<<"h", "t", "m", "l">>,
       [name |-> <<"H", "T", "M", "L">>,
        extension |-> <<".", "h", "t", "m", "l">>,
        icon |-> <<"F", "i", "l", "e", "C", "o", "d", "e">>]>>,
     <<<<"c", "s", "s">>,
       [name |-> <<"C", "S", "S">>,
        extension |-> <<".", "c", "s", "s">>,
        icon |-> <<"F", "i", "l", "e", "C", "o", "d", "e">>]>>,
     <<<<"s", "c", "s", "s">>,
       [name |-> <<"S", "C", "S", "S">>,
        extension |-> <<".", "s", "c", "s", "s">>,
        icon |-> <<"F", "i", "l", "e", "C", "o", "d", "e">>]>>,
     <<<<"j", "s", "o", "n">>,
       [name |-> <<"J", "S", "O", "N">>,
        extension |-> <<".", "j", "s", "o", "n">>,
        icon |-> <<"B", "r", "a", "c", "e", "s">>]>>,
     <<<<"x", "m", "l">>,
       [name |-> <<"X", "M", "L">>,
        extension |-> <<".", "x", "m", "l">>,
        icon |-> <<"F", "i", "l", "e", "C", "o", "d", "e">>]>>,
     <<<<"y", "a", "m", "l">>,
       [name |-> <<"Y", "A", "M", "L">>,
        extension |-> <<".", "y", "a", "m", "l">>,
        icon |-> <<"F", "i", "l", "e", "C", "o", "d", "e">>]>>,
     <<<<"m", "a", "r", "k", "d", "o", "w", "n">>,
       [name |-> <<"M", "a", "r", "k", "d", "o", "w", "n">>,
        extension |-> <<".", "m", "d">>,
        icon |-> <<"F", "i", "l", "e", "T", "e", "x", "t">>]>>,
     <<<<"s", "q", "l">>,
       [name |-> <<"S", "Q", "L">>,
        extension |-> <<".", "s", "q", "l">>,
        icon |-> <<"D", "a", "t", "a", "b", "a", "s", "e">>]>>,
     <<<<"b", "a", "s", "h">>,
       [name |-> <<"B", "a", "s", "h">>,
        extension |-> <<".", "s", "h">>,
        icon |-> <<"T", "e", "r", "m", "i", "n", "a", "l">>]>>,
     <<<<"s", "h", "e", "l", "l">>,
       [name |-> <<"S", "h", "e", "l", "l">>,
        extension |-> <<".", "s", "h">>,
        icon |-> <<"T", "e", "r", "m", "i", "n", "a", "l">>]>>,
     <<<<"d", "o", "c", "k", "e", "r", "f", "i", "l", "e">>,
       [name |-> <<"D", "o", "c", "k", "e", "r", "f", "i", "l", "e">>,
        extension |-> <<"D", "o", "c", "k", "e", "r", "f", "i", "l", "e">>,
        icon |-> <<"B", "o", "x">>]>>,
     <<<<"p", "l", "a", "i", "n", "t", "e", "x", "t">>,
       [name |-> <<"P", "l", "a", "i", "n", " ", "T", "e", "x", "t">>,
        extension |-> <<".", "t", "x", "t">>,
        icon |-> <<"F", "i", "l", "e", "T", "e", "x", "t">>]>>
  >>

DEFAULT_EDITOR_CONFIG ==
  [language |-> <<"j", "a", "v", "a", "s", "c", "r", "i", "p", "t">>,
   theme |-> <<"a", "u", "t", "o">>,
   fontSize |-> 14,
   lineNumbers |-> TRUE,
   wordWrap |-> TRUE,
   tabSize |-> 2,
   readOnly |-> FALSE]

CODE_EDITOR_CONSTANTS ==
  [MIN_FONT_SIZE |-> 10,
   MAX_FONT_SIZE |-> 24,
   DEFAULT_FONT_SIZE |-> 14,
   MIN_TAB_SIZE |-> 2,
   MAX_TAB_SIZE |-> 8,
   DEFAULT_TAB_SIZE |-> 2,
   MAX_CODE_LENGTH |-> 50000,
   PREVIEW_LENGTH |-> 150]

\* The exported objects as the module creates them.  They are ordinary
\* objects, not frozen: the methods read them at each call.
InitialTables ==
  [LANGUAGE_INFO |-> LANGUAGE_INFO,
   DEFAULT_EDITOR_CONFIG |-> DEFAULT_EDITOR_CONFIG,
   CODE_EDITOR_CONSTANTS |-> CODE_EDITOR_CONSTANTS]

----------------------------------------------------------------------------
(* CodeEditorUtils.detectLanguage                                          *)

languageMap ==
  <<
     <<<<"t", "s">>, <<"t", "y", "p", "e", "s", "c", "r", "i", "p", "t">>>>,
     <<<<"t", "s", "x">>, <<"t", "y", "p", "e", "s", "c", "r", "i", "p", "t">>>>,
     <<<<"j", "s">>, <<"j", "a", "v", "a", "s", "c", "r", "i", "p", "t">>>>,
     <<<<"j", "s", "x">>, <<"j", "a", "v", "a", "s", "c", "r", "i", "p", "t">>>>,
     <<<<"p", "y">>, <<"p", "y", "t", "h", "o", "n">>>>,
     <<<<"j", "a", "v", "a">>, <<"j", "a", "v", "a">>>>,
     <<<<"c", "s">>, <<"c", "s", "h", "a", "r", "p">>>>,
     <<<<"c", "p", "p">>, <<"c", "p", "p">>>>,
     <<<<"c", "c">>, <<"c", "p", "p">>>>,
     <<<<"c">>, <<"c">>>>,
     <<<<"h">>, <<"c">>>>,
     <<<<"s", "w", "i", "f", "t">>, <<"s", "w", "i", "f", "t">>>>,
     <<<<"k", "t">>, <<"k", "o", "t", "l", "i", "n">>>>,
     <<<<"g", "o">>, <<"g", "o">>>>,
     <<<<"r", "s">>, <<"r", "u", "s", "t">>>>,
     <<<<"p", "h", "p">>, <<"p", "h", "p">>>>,
     <<<<"r", "b">>, <<"r", "u", "b", "y">>>>,
     <<<<"h", "t", "m", "l">>, <<"h", "t", "m", "l">>>>,
     <<<<"h", "t", "m">>, <<"h", "t", "m", "l">>>>,
     <<<<"c", "s", "s">>, <<"c", "s", "s">>>>,
     <<<<"s", "c", "s", "s">>, <<"s", "c", "s", "s">>>>,
     <<<<"s", "a", "s", "s">>, <<"s", "c", "s", "s">>>>,
     <<<<"j", "s", "o", "n">>, <<"j", "s", "o", "n">>>>,
     <<<<"x", "m", "l">>, <<"x", "m", "l">>>>,
     <<<<"y", "a", "m", "l">>, <<"y", "a", "m", "l">>>>,
     <<<<"y", "m", "l">>, <<"y", "a", "m", "l">>>>,
     <<<<"m", "d">>, <<"m", "a", "r", "k", "d", "o", "w", "n">>>>,
     <<<<"s", "q", "l">>, <<"s", "q", "l">>>>,
     <<<<"s", "h">>, <<"b", "a", "s", "h">>>>,
     <<<<"b", "a", "s", "h">>, <<"b", "a", "s", "h">>>>,
     <<<<"d", "o", "c", "k", "e", "r", "f", "i", "l", "e">>, <<"d", "o", "c", "k", "e", "r", "f", "i", "l", "e">>>>,
     <<<<"t", "x", "t">>, <<"p", "l", "a", "i", "n", "t", "e", "x", "t">>>>
  >>

plaintext == <<"p", "l", "a", "i", "n", "t", "e", "x", "t">>

\* languageMapGet with 'sh' routed to shell
languageMapGetShell(ext) ==
  IF ext = <<"s", "h">> THEN <<"s", "h", "e", "l", "l">>
  ELSE IF ext \in Keys(languageMap) THEN OwnValue(languageMap, ext)
  ELSE Undefined

\* languageMap[ext]: an own key gives its language; a name inherited from
\* Object.prototype gives that built-in (the Object function for
\* 'constructor', Object.prototype for '__proto__'); anything else is
\* undefined
languageMapGet(ext) ==
  IF ext \in Keys(languageMap) THEN OwnValue(languageMap, ext)
  ELSE IF ext = <<"c", "o", "n", "s", "t", "r", "u", "c", "t", "o", "r">> THEN ObjectConstructor
  ELSE IF ext = <<"_", "_", "p", "r", "o", "t", "o", "_", "_">> THEN ObjectPrototypeObject
  ELSE IF ext \in Keys(ObjectPrototype) THEN <<"[Function]">>
  ELSE Undefined

\* extOf without the lower-casing
extOfCaseSensitive(filename) ==
  LET popped == pop(split(filename, "."))
  IN  IF Truthy(popped) THEN popped ELSE <<>>

\* const ext = filename.toLowerCase().split('.').pop() || ''
extOf(filename) ==
  LET popped == pop(split(toLowerCase(filename), "."))
  IN  IF Truthy(popped) THEN popped ELSE <<>>

\* detectLanguage that takes the text after the last '.', and nothing when
\* the filename has no '.'
detectLanguageAfterDotOnly(filename) ==
  LET lower == toLowerCase(filename)
      dot == lastIndexOf(lower, ".")
      ext == IF dot = -1 THEN <<>> ELSE substring(lower, dot + 1, Len(lower))
      found == languageMapGet(ext)
  IN  IF Truthy(found) THEN found ELSE plaintext

detectLanguage(filename) ==
  LET ext == extOf(filename)
      found == languageMapGet(ext)
  IN  IF Truthy(found) THEN found ELSE plaintext

----------------------------------------------------------------------------
(* CodeEditorUtils.formatForDisplay                                        *)

\* The largest power of two strictly below p, for p >= 1 (1 for p = 1):
\* the integer p lies in the binade (Binade(p), 2 * Binade(p)]
RECURSIVE Binade(_)
Binade(p) == IF p <= 2 THEN 1 ELSE 2 * Binade((p + 1) \div 2)

\* lastNewline > maxLength * 0.7 in IEEE-754 double arithmetic, for integers
\* lastNewline >= -1 and maxLength >= 0.  The literal 0.7 is the double
\* 0.7 - 0.4 * 2^-53, so the exact product is 0.7 * maxLength -
\* 0.4 * maxLength * 2^-53, and it is rounded to the nearest double (ties to
\* even).  An integer p exceeds the rounded product iff the exact product
\* lies below the midpoint of p and the double before p, which is
\* p - Binade(p) * 2^-53: that is 10 * p > 7 * maxLength, or
\* 10 * p = 7 * maxLength and 4 * p > 7 * Binade(p).
GreaterThanSeventyPercent(lastNewline, maxLength) ==
  /\ lastNewline >= 1
  /\ \/ 10 * lastNewline > 7 * maxLength
     \/ /\ 10 * lastNewline = 7 * maxLength
        /\ 4 * lastNewline > 7 * Binade(lastNewline)

NewlineEllipsis == <<"\n", ".", ".", ".">>

Ellipsis == <<".", ".", ".">>

formatForDisplay(code, maxLength) ==
  IF Len(code) <= maxLength THEN code
  ELSE LET truncated == substring(code, 0, maxLength)
           lastNewline == lastIndexOf(truncated, "\n")
       IN  IF GreaterThanSeventyPercent(lastNewline, maxLength)
             THEN substring(truncated, 0, lastNewline) \o NewlineEllipsis
             ELSE truncated \o Ellipsis

----------------------------------------------------------------------------
(* CodeEditorUtils.countLines, countCharacters, isValidLength              *)

\* countLines without the guard for an empty or absent code
countLinesOfSplit(code) == Len(split(code, "\n"))

countLines(code) ==
  IF ~Truthy(code) THEN 0 ELSE Len(split(code, "\n"))

countCharacters(code) == Len(code)

\* isValidLength with a strict comparison
isValidLengthStrict(code) == Len(code) < CODE_EDITOR_CONSTANTS.MAX_CODE_LENGTH

isValidLength(code) ==
  Len(code) <= tables.CODE_EDITOR_CONSTANTS.MAX_CODE_LENGTH

----------------------------------------------------------------------------
(* CodeEditorUtils.getLanguageIcon, getLanguageName, getFileExtension      *)

FileCode == <<"F", "i", "l", "e", "C", "o", "d", "e">>

DotTxt == <<".", "t", "x", "t">>

\* LANGUAGE_INFO[language]?.field: the record's field for an own key; for a
\* name inherited from Object.prototype the built-in's own property of that
\* name, which exists only for 'name' on a function; undefined otherwise
languageInfoGet(language, field) ==
  IF language \in Keys(tables.LANGUAGE_INFO)
    THEN OwnValue(tables.LANGUAGE_INFO, language)[field]
  ELSE IF language \in Keys(ObjectPrototype) /\ field = "name"
    THEN OwnValue(ObjectPrototype, language)
  ELSE Undefined

\* getLanguageIcon that falls back to the icon of the plaintext record
getLanguageIconOfPlaintext(language) ==
  LET icon == languageInfoGet(language, "icon")
  IN  IF Truthy(icon) THEN icon ELSE OwnValue(LANGUAGE_INFO, plaintext).icon

getLanguageIcon(language) ==
  LET icon == languageInfoGet(language, "icon")
  IN  IF Truthy(icon) THEN icon ELSE FileCode

\* getLanguageName that echoes the identity without looking it up
getLanguageNameEcho(language) == language

getLanguageName(language) ==
  LET name == languageInfoGet(language, "name")
  IN  IF Truthy(name) THEN name ELSE language

getFileExtension(language) ==
  LET extension == languageInfoGet(language, "extension")
  IN  IF Truthy(extension) THEN extension ELSE DotTxt

----------------------------------------------------------------------------
(* CodeEditorUtils.getCodePreview                                          *)

\* getCodePreview that also marks a code of exactly the requested lines
getCodePreviewMarksEqual(code, lines) ==
  LET codeLines == split(code, "\n")
      preview == join(slice(codeLines, lines), <<"\n">>)
  IN  IF Len(codeLines) >= lines THEN preview \o NewlineEllipsis
      ELSE preview

getCodePreview(code, lines) ==
  LET codeLines == split(code, "\n")
      preview == join(slice(codeLines, lines), <<"\n">>)
  IN  IF Len(codeLines) > lines THEN preview \o NewlineEllipsis
      ELSE preview

----------------------------------------------------------------------------
(* CodeEditorUtils.formatFileSize                                          *)

Digits == <<"0", "1", "2", "3", "4", "5", "6", "7", "8", "9">>

\* Number-to-string conversion of a non-negative integer
RECURSIVE NumberToString(_)
NumberToString(n) ==
  IF n < 10 THEN <<Digits[n + 1]>>
  ELSE NumberToString(n \div 10) \o <<Digits[(n % 10) + 1]>>

\* toFixed1 that cuts the digits after the first decimal place off
toFixed1Truncating(bytes, divisor) ==
  LET tenths == (10 * bytes) \div divisor
  IN  NumberToString(tenths \div 10) \o <<".">> \o <<Digits[(tenths % 10) + 1]>>

\* (bytes / divisor).toFixed(1) for a divisor that is a power of two: the
\* quotient is an exact double, and toFixed picks the nearest tenth, the
\* larger one on a tie
toFixed1(bytes, divisor) ==
  LET tenths == (20 * bytes + divisor) \div (2 * divisor)
  IN  NumberToString(tenths \div 10) \o <<".">> \o <<Digits[(tenths % 10) + 1]>>

formatFileSize(bytes) ==
  IF bytes < 1024 THEN NumberToString(bytes) \o <<" ", "B">>
  ELSE IF bytes < 1024 * 1024 THEN toFixed1(bytes, 1024) \o <<" ", "K", "B">>
  ELSE toFixed1(bytes, 1024 * 1024) \o <<" ", "M", "B">>

----------------------------------------------------------------------------
(* CodeEditorUtils.generateSnippetId                                       *)

SnippetPrefix == <<"s", "n", "i", "p", "p", "e", "t", "_">>

\* `snippet_${Date.now()}_${Math.random().toString(36).substring(2, 9)}`,
\* for the reading now of the clock and the text random that
\* Math.random().toString(36) gives: "0" or "0." and base-36 digits
generateSnippetId(now, random) ==
  SnippetPrefix \o NumberToString(now) \o <<"_">> \o substring(random, 2, 9)

----------------------------------------------------------------------------
(* CodeEditorUtils.validateSnippet                                         *)

\* The white space String.prototype.trim removes
WhiteSpace == {" ", "\t", "\n", "\r", "\f"}

\* The number of leading white-space characters of s from offset i on
RECURSIVE LeadingWhiteSpace(_, _)
LeadingWhiteSpace(s, i) ==
  IF i > Len(s) \/ s[i] \notin WhiteSpace THEN 0
  ELSE 1 + LeadingWhiteSpace(s, i + 1)

\* The number of trailing white-space characters of s up to offset i
RECURSIVE TrailingWhiteSpace(_, _)
TrailingWhiteSpace(s, i) ==
  IF i < 1 \/ s[i] \notin WhiteSpace THEN 0
  ELSE 1 + TrailingWhiteSpace(s, i - 1)

\* String.prototype.trim
trim(s) ==
  IF \A i \in 1..Len(s) : s[i] \in WhiteSpace THEN <<>>
  ELSE SubSeq(s, 1 + LeadingWhiteSpace(s, 1),
              Len(s) - TrailingWhiteSpace(s, Len(s)))

\* snippet.field?.trim(): undefined when the field is absent
OptionalTrim(v) == IF v = Undefined THEN Undefined ELSE trim(v)

TitleIsRequired == <<"T", "i", "t", "l", "e", " ", "i", "s", " ", "r", "e", "q", "u", "i", "r", "e", "d">>

CodeIsRequired == <<"C", "o", "d", "e", " ", "i", "s", " ", "r", "e", "q", "u", "i", "r", "e", "d">>

CodeExceedsMaximumLengthOf == <<"C", "o", "d", "e", " ", "e", "x", "c", "e", "e", "d", "s", " ", "m", "a", "x", "i", "m", "u", "m", " ", "l", "e", "n", "g", "t", "h", " ", "o", "f", " ">>

\* validateSnippet that stops at the first failing check
validateSnippetFirstError(snippet) ==
  LET errors ==
        IF ~Truthy(OptionalTrim(snippet.title)) THEN <<TitleIsRequired>>
        ELSE IF ~Truthy(OptionalTrim(snippet.code)) THEN <<CodeIsRequired>>
        ELSE IF Truthy(snippet.code) /\ ~isValidLength(snippet.code)
          THEN <<CodeExceedsMaximumLengthOf
                   \o formatFileSize(CODE_EDITOR_CONSTANTS.MAX_CODE_LENGTH)>>
        ELSE <<>>
  IN  [valid |-> Len(errors) = 0, errors |-> errors]

validateSnippet(snippet) ==
  LET errors1 == IF ~Truthy(OptionalTrim(snippet.title))
                   THEN <<TitleIsRequired>> ELSE <<>>
      errors2 == IF ~Truthy(OptionalTrim(snippet.code))
                   THEN Append(errors1, CodeIsRequired) ELSE errors1
      errors3 == IF Truthy(snippet.code) /\ ~isValidLength(snippet.code)
                   THEN Append(errors2,
                          CodeExceedsMaximumLengthOf
                            \o formatFileSize(
                                 tables.CODE_EDITOR_CONSTANTS.MAX_CODE_LENGTH))
                   ELSE errors2
  IN  [valid |-> Len(errors3) = 0, errors |-> errors3]

----------------------------------------------------------------------------
(* Bounds of the explored inputs                                           *)

MaxFilenameLen == 3

MaxCodeLen == 4

MaxSmallLength == 3

MaxDisplayLength == 90

MaxLines == 4

MaxExcess == 1

MaxBytes == 12

MaxClock == 1

MaxEarlierCalls == 2

MaxPresses == 2

----------------------------------------------------------------------------
(* The inputs the operations are called with                               *)

\* All strings of at most n characters over the alphabet
StringsUpTo(alphabet, n) == UNION {[1..k -> alphabet] : k \in 0..n}

\* Trailing tokens: every key of the map in lower and in upper case, and
\* tokens that are not keys
Tokens ==
  Keys(languageMap)
    \cup {toUpperCase(e) : e \in Keys(languageMap)}
    \cup {<<>>,
          <<"n", "o", "_", "e", "x", "t", "e", "n", "s", "i", "o", "n">>,
          <<"c", "o", "n", "s", "t", "r", "u", "c", "t", "o", "r">>,
          <<"t", "o", "s", "t", "r", "i", "n", "g">>,
          <<"t", "o", "S", "t", "r", "i", "n", "g">>,
          <<"_", "_", "p", "r", "o", "t", "o", "_", "_">>,
          <<"D", "o", "c", "k", "e", "r", "f", "i", "l", "e">>,
          <<"m", "a", "k", "e", "f", "i", "l", "e">>,
          <<"c", "o", "b", "o", "l">>}

FileDot == <<"f", "i", "l", "e", ".">>

UpperFileDot == <<"F", "I", "L", "E", ".">>

Prefixes ==
  {<<>>, FileDot, UpperFileDot, <<"m", "y", ".", "a", "p", "p", ".">>, <<"x">>, <<".">>}

Filenames ==
  {p \o t : p \in Prefixes, t \in Tokens}
    \cup StringsUpTo({".", "c", "H"}, MaxFilenameLen)

\* Identity values: the closed set, and raw values outside it
Identities ==
  ProgrammingLanguage
    \cup Keys(ObjectPrototype)
    \cup {<<"c", "o", "b", "o", "l">>, <<"T", "y", "p", "e", "S", "c", "r", "i", "p", "t">>, <<"t", "o", "s", "t", "r", "i", "n", "g">>}
    \cup StringsUpTo({"c", "+"}, MaxFilenameLen)

SmallCodes == StringsUpTo({"a", " ", "\n"}, MaxCodeLen)

\* A code of n characters c with a newline at 0-based offset p (none when
\* p is -1 or beyond the end)
MarkedCode(n, c, p) == [i \in 1..n |-> IF i = p + 1 THEN "\n" ELSE c]

\* maxLength arguments: small ones, and the multiples of ten up to the bound
LongLengths == {m \in 1..MaxDisplayLength : m % 10 = 0}

\* Codes of maxLength, maxLength + 1 and maxLength + 2 characters with a
\* newline at every offset, and without one
MarkedCodes(maxLength) ==
  UNION {{MarkedCode(n, "a", p) : p \in (-1)..(n - 1)} :
           n \in {maxLength, maxLength + 1, maxLength + 2}}

DisplayArgs ==
  {<<code, m>> : code \in SmallCodes, m \in 0..MaxSmallLength}
    \cup {<<code>> : code \in SmallCodes}
    \cup UNION {{<<code, m>> : code \in MarkedCodes(m)} : m \in LongLengths}
    \cup {<<code>> : code \in MarkedCodes(CODE_EDITOR_CONSTANTS.PREVIEW_LENGTH)}

PreviewArgs ==
  {<<code, lines>> : code \in SmallCodes, lines \in 0..MaxLines}
    \cup {<<code>> : code \in SmallCodes}

\* A code of n characters c whose first and last characters are edge
EdgedCode(n, c, edge) == [i \in 1..n |-> IF i \in {1, n} THEN edge ELSE c]

\* Codes around the maximum code length
BigCodes ==
  {EdgedCode(n, c, edge) :
     n \in CODE_EDITOR_CONSTANTS.MAX_CODE_LENGTH
             ..(CODE_EDITOR_CONSTANTS.MAX_CODE_LENGTH + MaxExcess),
     c \in {"a", " "}, edge \in {"a", " "}}

Titles == {Undefined, <<>>, <<" ">>, <<"x">>, <<" ", "x", " ">>, <<"\n", "\t">>}

\* Partial<CodeSnippet>: an absent field is undefined
Snippets ==
  {[title |-> t, code |-> c] : t \in Titles, c \in {Undefined} \cup SmallCodes}
    \cup {[title |-> t, code |-> c] : t \in {Undefined, <<"x">>}, c \in BigCodes}

ByteCounts ==
  0..MaxBytes
    \cup {1024 * k + d : k \in {1, 48, 1023, 1024, 1536}, d \in {-1, 0, 1, 51, 52, 256, 512}}
    \cup {CODE_EDITOR_CONSTANTS.MAX_CODE_LENGTH}

\* Readings of the clock, in milliseconds
ClockValues == 0..MaxClock

\* Texts Math.random().toString(36) can give
RandomTexts ==
  {<<"0">>,
   <<"0", ".", "k">>,
   <<"0", ".", "4", "f", "z", "y", "o", "8", "2", "m", "v", "y", "r">>}

\* The requests of a caller that makes several calls
CallRequests ==
  {[op |-> "detectLanguage", args |-> <<FileDot \o <<"t", "s">>>>],
   [op |-> "formatForDisplay", args |-> <<<<"a", "\n", "a">>, 2>>],
   [op |-> "formatForDisplay", args |-> <<<<"a", "\n", "a">>>>],
   [op |-> "countLines", args |-> <<<<"a", "\n">>>>],
   [op |-> "countCharacters", args |-> <<<<"a", "\n">>>>],
   [op |-> "isValidLength", args |-> <<<<"a">>>>],
   [op |-> "getLanguageIcon", args |-> <<<<"c", "o", "b", "o", "l">>>>],
   [op |-> "getLanguageName", args |-> <<<<"c", "o", "b", "o", "l">>>>],
   [op |-> "getFileExtension", args |-> <<<<"c", "o", "b", "o", "l">>>>],
   [op |-> "getLanguageName", args |-> <<<<"j", "s", "o", "n">>>>],
   [op |-> "getCodePreview", args |-> <<<<"a", "\n", "a">>, 1>>],
   [op |-> "formatFileSize", args |-> <<1024>>],
   [op |-> "generateSnippetId", args |-> <<>>],
   [op |-> "validateSnippet",
    args |-> <<[title |-> <<"x">>, code |-> <<"a">>]>>]}

----------------------------------------------------------------------------
(* The state machine: a caller holds a request and the operation named in  *)
(* it is applied to the request's arguments.                               *)

\* CodeBlock is rendered with an empty code and nobody has pressed Copy
BlockIdle ==
  /\ props = [code |-> <<>>, showCopyButton |-> TRUE]
  /\ presses = <<>>
  /\ toasts = <<>>

Init ==
  /\ pc = "call"
  /\ result = Undefined
  /\ tables = InitialTables
  /\ history = <<>>
  /\ BlockIdle
  /\ \/ \E f \in Filenames : request = [op |-> "detectLanguage", args |-> <<f>>]
     \/ \E a \in DisplayArgs : request = [op |-> "formatForDisplay", args |-> a]
     \/ \E c \in SmallCodes \cup {Undefined} :
          request = [op |-> "countLines", args |-> <<c>>]
     \/ \E c \in SmallCodes : request = [op |-> "countCharacters", args |-> <<c>>]
     \/ \E c \in SmallCodes \cup BigCodes :
          request = [op |-> "isValidLength", args |-> <<c>>]
     \/ \E l \in Identities, o \in {"getLanguageIcon", "getLanguageName", "getFileExtension"} :
          request = [op |-> o, args |-> <<l>>]
     \/ \E a \in PreviewArgs : request = [op |-> "getCodePreview", args |-> a]
     \/ \E b \in ByteCounts : request = [op |-> "formatFileSize", args |-> <<b>>]
     \/ \E s \in Snippets : request = [op |-> "validateSnippet", args |-> <<s>>]
     \/ request = [op |-> "generateSnippetId", args |-> <<>>]

\* The operation op returns value
Return(op, value) ==
  /\ pc = "call"
  /\ request.op = op
  /\ result' = value
  /\ pc' = "return"
  /\ UNCHANGED <<request, tables, history, blockVars>>

DetectLanguage ==
  /\ request.op = "detectLanguage"
  /\ Return("detectLanguage", detectLanguage(request.args[1]))

FormatForDisplay ==
  /\ request.op = "formatForDisplay"
  /\ Return("formatForDisplay",
            formatForDisplay(request.args[1],
                             IF Len(request.args) >= 2 THEN request.args[2]
                             ELSE tables.CODE_EDITOR_CONSTANTS.PREVIEW_LENGTH))

CountLines ==
  /\ request.op = "countLines"
  /\ Return("countLines", countLines(request.args[1]))

CountCharacters ==
  /\ request.op = "countCharacters"
  /\ Return("countCharacters", countCharacters(request.args[1]))

IsValidLength ==
  /\ request.op = "isValidLength"
  /\ Return("isValidLength", isValidLength(request.args[1]))

GetLanguageIcon ==
  /\ request.op = "getLanguageIcon"
  /\ Return("getLanguageIcon", getLanguageIcon(request.args[1]))

\* GetLanguageName that registers a record for an identity it did not know
GetLanguageNameRegistering ==
  /\ pc = "call"
  /\ request.op = "getLanguageName"
  /\ result' = getLanguageName(request.args[1])
  /\ pc' = "return"
  /\ tables' =
       [tables EXCEPT !.LANGUAGE_INFO =
          IF request.args[1] \in Keys(@) THEN @
          ELSE Append(@, <<request.args[1],
                           [name |-> request.args[1],
                            extension |-> DotTxt,
                            icon |-> <<"F", "i", "l", "e", "T", "e", "x", "t">>]>>)]
  /\ UNCHANGED <<request, history, blockVars>>

GetLanguageName ==
  /\ request.op = "getLanguageName"
  /\ Return("getLanguageName", getLanguageName(request.args[1]))

GetFileExtension ==
  /\ request.op = "getFileExtension"
  /\ Return("getFileExtension", getFileExtension(request.args[1]))

GetCodePreview ==
  /\ request.op = "getCodePreview"
  /\ Return("getCodePreview",
            getCodePreview(request.args[1],
                           IF Len(request.args) >= 2 THEN request.args[2] ELSE 3))

FormatFileSize ==
  /\ request.op = "formatFileSize"
  /\ Return("formatFileSize", formatFileSize(request.args[1]))

ValidateSnippet ==
  /\ request.op = "validateSnippet"
  /\ Return("validateSnippet", validateSnippet(request.args[1]))

GenerateSnippetId ==
  /\ request.op = "generateSnippetId"
  /\ \E now \in ClockValues, random \in RandomTexts :
       Return("generateSnippetId", generateSnippetId(now, random))

Next ==
  \/ DetectLanguage
  \/ FormatForDisplay
  \/ CountLines
  \/ CountCharacters
  \/ IsValidLength
  \/ GetLanguageIcon
  \/ GetLanguageName
  \/ GetFileExtension
  \/ GetCodePreview
  \/ FormatFileSize
  \/ ValidateSnippet
  \/ GenerateSnippetId

Spec == Init /\ [][Next]_vars

\* A caller that makes one call after the other.  The methods are
\* synchronous and JavaScript runs them one at a time, so the calls of any
\* number of callers form one sequence; history is that sequence.
CallsInit ==
  /\ pc = "call"
  /\ result = Undefined
  /\ tables = InitialTables
  /\ history = <<>>
  /\ request \in CallRequests
  /\ BlockIdle

\* The caller takes the result and makes the next call
NextCall ==
  /\ pc = "return"
  /\ Len(history) < MaxEarlierCalls
  /\ history' = Append(history, [request |-> request, result |-> result])
  /\ pc' = "call"
  /\ result' = Undefined
  /\ request' \in CallRequests
  /\ UNCHANGED <<tables, blockVars>>

CallsNext ==
  \/ Next
  \/ NextCall

CallsSpec == CallsInit /\ [][CallsNext]_vars

----------------------------------------------------------------------------
(* CodeBlock: the Copy button and handleCopy                               *)

CodeCopiedToClipboard == <<"C", "o", "d", "e", " ", "c", "o", "p", "i", "e", "d", " ", "t", "o", " ", "c", "l", "i", "p", "b", "o", "a", "r", "d">>

\* The code props CodeBlock is rendered with
BlockCodes == {<<>>, <<"a">>, <<"a", "\n", "a">>}

\* The parent renders CodeBlock with new props; handleCopy is created anew
\* and closes over the new code
Render ==
  /\ \E c \in BlockCodes, show \in BOOLEAN :
       props' = [code |-> c, showCopyButton |-> show]
  /\ UNCHANGED <<presses, toasts, utilsVars>>

\* handleCopy that does not wait for the copy
AwaitSkipped(press) == TRUE

\* await copy(code): handleCopy goes on only when the promise of the copy
\* is fulfilled
AwaitFulfilled(press) == press.copy = "resolved"

\* A press of the Copy button, rendered only when showCopyButton is set:
\* handleCopy calls copy(code) and waits for its promise
PressCopy ==
  /\ props.showCopyButton
  /\ Len(presses) < MaxPresses
  /\ presses' = Append(presses, [text |-> props.code,
                                 copy |-> "pending",
                                 handler |-> "awaiting"])
  /\ UNCHANGED <<props, toasts, utilsVars>>

\* The clipboard completes the copy of press i
CopyResolves(i) ==
  /\ presses[i].copy = "pending"
  /\ presses' = [presses EXCEPT ![i].copy = "resolved"]
  /\ UNCHANGED <<props, toasts, utilsVars>>

\* The clipboard fails the copy of press i
CopyRejects(i) ==
  /\ presses[i].copy = "pending"
  /\ presses' = [presses EXCEPT ![i].copy = "rejected"]
  /\ UNCHANGED <<props, toasts, utilsVars>>

\* handleCopy of press i goes on after the await and shows the toast
HandleCopyResumes(i) ==
  /\ presses[i].handler = "awaiting"
  /\ AwaitFulfilled(presses[i])
  /\ toasts' = Append(toasts, [press |-> i, message |-> CodeCopiedToClipboard])
  /\ presses' = [presses EXCEPT ![i].handler = "done"]
  /\ UNCHANGED <<props, utilsVars>>

\* The await of press i throws the rejection and handleCopy ends there
HandleCopyThrows(i) ==
  /\ presses[i].handler = "awaiting"
  /\ presses[i].copy = "rejected"
  /\ presses' = [presses EXCEPT ![i].handler = "threw"]
  /\ UNCHANGED <<props, toasts, utilsVars>>

\* CodeBlock on its own: no CodeEditorUtils call is in progress
CodeBlockInit ==
  /\ pc = "return"
  /\ request = [op |-> "none", args |-> <<>>]
  /\ result = Undefined
  /\ tables = InitialTables
  /\ history = <<>>
  /\ BlockIdle

CodeBlockNext ==
  \/ Render
  \/ PressCopy
  \/ \E i \in 1..Len(presses) : CopyResolves(i)
  \/ \E i \in 1..Len(presses) : CopyRejects(i)
  \/ \E i \in 1..Len(presses) : HandleCopyResumes(i)
  \/ \E i \in 1..Len(presses) : HandleCopyThrows(i)

CodeBlockSpec == CodeBlockInit /\ [][CodeBlockNext]_vars

\* The call of op has returned
Returned(op) == pc = "return" /\ request.op = op

----------------------------------------------------------------------------
(* detectLanguage: extensions, case, filenames without a dot               *)

\* The filename the returned detectLanguage call was given
Filename == request.args[1]

HasDot(s) == \E i \in 1..Len(s) : s[i] = "."

\* C1: for every key e of the Extension-to-Language Map, mapped to language
\* L, detectLanguage("file." + e) and detectLanguage("FILE." + uppercase(e))
\* both return L.
C1_ExtensionCaseInsensitive ==
  Returned("detectLanguage") =>
    \A e \in Keys(languageMap) :
      Filename \in {FileDot \o e, UpperFileDot \o toUpperCase(e)}
        => result = OwnValue(languageMap, e)

\* detectLanguage("FILE.TSX") has returned typescript
C1_Witness ==
  /\ Returned("detectLanguage")
  /\ Filename = UpperFileDot \o <<"T", "S", "X">>
  /\ result = <<"t", "y", "p", "e", "s", "c", "r", "i", "p", "t">>

\* C2 as stated: for every filename without a '.', the trailing token is the
\* empty string and detectLanguage returns plaintext.
C2_NoDotIsPlaintext ==
  (Returned("detectLanguage") /\ ~HasDot(Filename)) =>
    /\ extOf(Filename) = <<>>
    /\ result = plaintext

\* C2 amended: for every filename without a '.', the trailing token is the
\* whole lower-cased filename; detectLanguage returns the mapped language
\* when that token is a key of the map, and plaintext for the empty filename
\* and for "no_extension".
C2_NoDotTokenIsWholeName ==
  (Returned("detectLanguage") /\ ~HasDot(Filename)) =>
    /\ extOf(Filename) = toLowerCase(Filename)
    /\ toLowerCase(Filename) \in Keys(languageMap)
         => result = OwnValue(languageMap, toLowerCase(Filename))
    /\ Filename \in {<<>>, <<"n", "o", "_", "e", "x", "t", "e", "n", "s", "i", "o", "n">>} => result = plaintext

\* detectLanguage("Dockerfile") has returned dockerfile
C2_Witness ==
  /\ Returned("detectLanguage")
  /\ Filename = <<"D", "o", "c", "k", "e", "r", "f", "i", "l", "e">>
  /\ result = <<"d", "o", "c", "k", "e", "r", "f", "i", "l", "e">>

\* C3: detectLanguage is total: it returns a member of the closed set of 25
\* Language Identities, and plaintext whenever the lower-cased trailing
\* token is not a key written in the Extension-to-Language Map.
C3_DetectLanguageTotal ==
  Returned("detectLanguage") =>
    /\ result \in ProgrammingLanguage
    /\ extOf(Filename) \notin Keys(languageMap) => result = plaintext

----------------------------------------------------------------------------
(* validateSnippet and isValidLength                                       *)

\* The snippet the returned validateSnippet call was given
Snippet == request.args[1]

\* A field is absent, or blank after trimming
Blank(v) == v = Undefined \/ \A i \in 1..Len(v) : v[i] \in WhiteSpace

\* A code is present and longer than the 50,000-character limit
TooLong(v) == v # Undefined /\ Len(v) >= 50001

CodeExceeds48KB == <<"C", "o", "d", "e", " ", "e", "x", "c", "e", "e", "d", "s", " ", "m", "a", "x", "i", "m", "u", "m", " ", "l", "e", "n", "g", "t", "h", " ", "o", "f", " ", "4", "8", ".", "8", " ", "K", "B">>

\* C4: validateSnippet runs all three checks on every input: the errors are
\* "Title is required" iff the title is absent or blank, "Code is required"
\* iff the code is absent or blank, and the code-length message iff the code
\* is present and too long, in that order; valid iff there is no error.
C4_AllChecksInOrder ==
  Returned("validateSnippet") =>
    /\ result.errors =
         (IF Blank(Snippet.title) THEN <<TitleIsRequired>> ELSE <<>>)
           \o (IF Blank(Snippet.code) THEN <<CodeIsRequired>> ELSE <<>>)
           \o (IF TooLong(Snippet.code) THEN <<CodeExceeds48KB>> ELSE <<>>)
    /\ result.valid = (result.errors = <<>>)

\* validateSnippet({}) has returned both presence errors, title first
C4_Witness ==
  /\ Returned("validateSnippet")
  /\ Snippet = [title |-> Undefined, code |-> Undefined]
  /\ result = [valid |-> FALSE, errors |-> <<TitleIsRequired, CodeIsRequired>>]

\* C5 as stated: a non-blank title and a code of more than 50,000
\* characters give exactly one error, the 48.8 KB message; isValidLength is
\* true up to 50,000 characters and false from 50,001 on.
C5_OneErrorWhenTooLong ==
  /\ (Returned("validateSnippet") /\ ~Blank(Snippet.title) /\ TooLong(Snippet.code))
       => result = [valid |-> FALSE, errors |-> <<CodeExceeds48KB>>]
  /\ Returned("isValidLength") => result = (Len(request.args[1]) <= 50000)

\* C5 amended: a non-blank title and a code of more than 50,000 characters
\* that is not blank after trimming give exactly one error, the 48.8 KB
\* message; when that code is blank after trimming the errors are "Code is
\* required" followed by the 48.8 KB message; isValidLength is true up to
\* 50,000 characters and false from 50,001 on.
C5_OneErrorWhenTooLongNotBlank ==
  /\ (Returned("validateSnippet") /\ ~Blank(Snippet.title) /\ TooLong(Snippet.code))
       => /\ ~result.valid
          /\ result.errors =
               IF Blank(Snippet.code) THEN <<CodeIsRequired, CodeExceeds48KB>>
               ELSE <<CodeExceeds48KB>>
  /\ Returned("isValidLength") => result = (Len(request.args[1]) <= 50000)

\* validateSnippet of a title "x" and a 50,001-character code that is not
\* blank has returned the single length error
C5_Witness ==
  /\ Returned("validateSnippet")
  /\ Snippet.title = <<"x">>
  /\ Snippet.code # Undefined
  /\ Len(Snippet.code) = 50001
  /\ ~Blank(Snippet.code)
  /\ result = [valid |-> FALSE, errors |-> <<CodeExceeds48KB>>]

----------------------------------------------------------------------------
(* Language metadata accessors                                             *)

\* The identity the returned accessor call was given
Identity == request.args[1]

\* The identity has no record in the Language Metadata table
Unmapped(language) == \A i \in 1..Len(LANGUAGE_INFO) : LANGUAGE_INFO[i][1] # language

\* The record the table holds for a mapped identity
RecordOf(language) ==
  LANGUAGE_INFO[CHOOSE i \in 1..Len(LANGUAGE_INFO) : LANGUAGE_INFO[i][1] = language][2]

----------------------------------------------------------------------------
(* The README's Supported Languages list against detectLanguage            *)

\* README, Supported Languages: display name and the extensions listed
ReadmeSupportedLanguages ==
  <<
     <<<<"T", "y", "p", "e", "S", "c", "r", "i", "p", "t">>,
       {<<".", "t", "s">>, <<".", "t", "s", "x">>}>>,
     <<<<"J", "a", "v", "a", "S", "c", "r", "i", "p", "t">>,
       {<<".", "j", "s">>, <<".", "j", "s", "x">>}>>,
     <<<<"P", "y", "t", "h", "o", "n">>,
       {<<".", "p", "y">>}>>,
     <<<<"J", "a", "v", "a">>,
       {<<".", "j", "a", "v", "a">>}>>,
     <<<<"C", "#">>,
       {<<".", "c", "s">>}>>,
     <<<<"C", "+", "+">>,
       {<<".", "c", "p", "p">>, <<".", "c", "c">>}>>,
     <<<<"C">>,
       {<<".", "c">>, <<".", "h">>}>>,
     <<<<"S", "w", "i", "f", "t">>,
       {<<".", "s", "w", "i", "f", "t">>}>>,
     <<<<"K", "o", "t", "l", "i", "n">>,
       {<<".", "k", "t">>}>>,
     <<<<"G", "o">>,
       {<<".", "g", "o">>}>>,
     <<<<"R", "u", "s", "t">>,
       {<<".", "r", "s">>}>>,
     <<<<"P", "H", "P">>,
       {<<".", "p", "h", "p">>}>>,
     <<<<"R", "u", "b", "y">>,
       {<<".", "r", "b">>}>>,
     <<<<"H", "T", "M", "L">>,
       {<<".", "h", "t", "m", "l">>, <<".", "h", "t", "m">>}>>,
     <<<<"C", "S", "S">>,
       {<<".", "c", "s", "s">>}>>,
     <<<<"S", "C", "S", "S">>,
       {<<".", "s", "c", "s", "s">>, <<".", "s", "a", "s", "s">>}>>,
     <<<<"J", "S", "O", "N">>,
       {<<".", "j", "s", "o", "n">>}>>,
     <<<<"X", "M", "L">>,
       {<<".", "x", "m", "l">>}>>,
     <<<<"Y", "A", "M", "L">>,
       {<<".", "y", "a", "m", "l">>, <<".", "y", "m", "l">>}>>,
     <<<<"M", "a", "r", "k", "d", "o", "w", "n">>,
       {<<".", "m", "d">>}>>,
     <<<<"S", "Q", "L">>,
       {<<".", "s", "q", "l">>}>>,
     <<<<"B", "a", "s", "h">>,
       {<<".", "s", "h">>, <<".", "b", "a", "s", "h">>}>>,
     <<<<"S", "h", "e", "l", "l">>,
       {<<".", "s", "h">>}>>,
     <<<<"D", "o", "c", "k", "e", "r", "f", "i", "l", "e">>,
       {<<"D", "o", "c", "k", "e", "r", "f", "i", "l", "e">>}>>,
     <<<<"P", "l", "a", "i", "n", " ", "T", "e", "x", "t">>,
       {<<".", "t", "x", "t">>}>>
  >>

\* The identity whose record has the display name
IdentityNamed(name) ==
  CHOOSE l \in ProgrammingLanguage : RecordOf(l).name = name

\* The filename ends in the extension as the README writes it: a dotted
\* suffix, or the bare filename for an entry written without a dot
EndsIn(filename, extension) ==
  IF extension[1] = "."
    THEN /\ Len(filename) >= Len(extension)
         /\ SubSeq(filename, Len(filename) - Len(extension) + 1, Len(filename))
              = extension
    ELSE filename = extension

----------------------------------------------------------------------------
(* formatForDisplay and getCodePreview                                     *)

\* The code the returned call was given
Code == request.args[1]

\* The maxLength the returned formatForDisplay call ran with
MaxLength == IF Len(request.args) >= 2 THEN request.args[2] ELSE 150

\* The 0-based offset of the last newline among the first n characters of
\* the code, -1 when there is none
LastNewlineWithin(code, n) ==
  LET offsets == {p \in 0..(n - 1) : p < Len(code) /\ code[p + 1] = "\n"}
  IN  IF offsets = {} THEN -1
      ELSE CHOOSE p \in offsets : \A q \in offsets : q <= p

\* C9: formatForDisplay returns a code of at most maxLength characters
\* unchanged; otherwise, with p the offset of the last newline inside the
\* first maxLength characters, the first p characters followed by "\n..."
\* when p is strictly greater than 70% of maxLength, and the first maxLength
\* characters followed by "..." in every other case.
C9_BreakBeyondSeventyPercent ==
  Returned("formatForDisplay") =>
    LET p == LastNewlineWithin(Code, MaxLength)
    IN  result =
          IF Len(Code) <= MaxLength THEN Code
          ELSE IF 10 * p > 7 * MaxLength
            THEN SubSeq(Code, 1, p) \o <<"\n", ".", ".", ".">>
            ELSE SubSeq(Code, 1, MaxLength) \o <<".", ".", ".">>

\* The number of lines the returned getCodePreview call ran with
LineCount == IF Len(request.args) >= 2 THEN request.args[2] ELSE 3

\* The 1-based positions of the newlines of the code
NewlinePositions(code) == {i \in 1..Len(code) : code[i] = "\n"}

\* The position of the k-th newline of the code, for 1 <= k <= their number
NthNewline(code, k) ==
  CHOOSE i \in NewlinePositions(code) :
    Cardinality({j \in NewlinePositions(code) : j < i}) = k - 1

\* C10: getCodePreview returns the first lineCount newline-delimited
\* segments of the code joined by newlines, followed by "\n..." iff the code
\* has more segments than lineCount; a code of at most lineCount segments
\* is returned unchanged.
C10_PreviewOfFirstLines ==
  Returned("getCodePreview") =>
    LET segments == Cardinality(NewlinePositions(Code)) + 1
    IN  result =
          IF segments <= LineCount THEN Code
          ELSE IF LineCount = 0 THEN <<"\n", ".", ".", ".">>
          ELSE SubSeq(Code, 1, NthNewline(Code, LineCount) - 1) \o <<"\n", ".", ".", ".">>

\* getCodePreview("a\na\n", 2) has returned "a\na\n..."
C10_Witness ==
  /\ Returned("getCodePreview")
  /\ Code = <<"a", "\n", "a", "\n">>
  /\ LineCount = 2
  /\ result = <<"a", "\n", "a", "\n", ".", ".", ".">>

----------------------------------------------------------------------------
(* countLines and formatFileSize                                           *)

\* C11: countLines returns 0 for an empty or absent code and, for every
\* other code, one more than the number of its newline characters, so that
\* countLines("a") = 1, countLines("a\nb") = 2 and countLines("a\n") = 2.
C11_LinesAreNewlinesPlusOne ==
  Returned("countLines") =>
    /\ result = IF Code = Undefined \/ Len(Code) = 0 THEN 0
                ELSE Cardinality(NewlinePositions(Code)) + 1
    /\ Code = <<"a">> => result = 1
    /\ Code = <<"a", "\n", "a">> => result = 2
    /\ Code = <<"a", "\n">> => result = 2

\* countLines("a\n") has returned 2
C11_Witness ==
  /\ Returned("countLines")
  /\ Code = <<"a", "\n">>
  /\ result = 2

\* The byte count the returned formatFileSize call was given
Bytes == request.args[1]

\* The digit a character stands for, -1 for any other character
DigitValue(c) ==
  IF \E d \in 0..9 : Digits[d + 1] = c
    THEN CHOOSE d \in 0..9 : Digits[d + 1] = c
    ELSE -1

\* The text is a decimal numeral without a superfluous leading zero
IsNumeral(text) ==
  /\ Len(text) >= 1
  /\ \A i \in 1..Len(text) : DigitValue(text[i]) >= 0
  /\ Len(text) >= 2 => text[1] # "0"

\* The number a decimal numeral denotes
RECURSIVE NumeralValue(_)
NumeralValue(text) ==
  IF Len(text) = 0 THEN 0
  ELSE 10 * NumeralValue(SubSeq(text, 1, Len(text) - 1)) + DigitValue(text[Len(text)])

\* The text is a numeral with exactly one decimal place followed by the
\* unit, and it denotes bytes / divisor rounded to the nearest tenth (a half
\* rounds up)
IsRoundedToOneDecimal(text, bytes, divisor, unit) ==
  LET n == Len(text) - Len(unit)
  IN  /\ n >= 3
      /\ SubSeq(text, n + 1, Len(text)) = unit
      /\ text[n - 1] = "."
      /\ IsNumeral(SubSeq(text, 1, n - 2))
      /\ DigitValue(text[n]) >= 0
      /\ LET tenths == 10 * NumeralValue(SubSeq(text, 1, n - 2)) + DigitValue(text[n])
         IN  /\ 2 * divisor * tenths - divisor <= 20 * bytes
             /\ 20 * bytes < 2 * divisor * tenths + divisor

----------------------------------------------------------------------------
(* Sequences of calls: the constant tables and referential transparency    *)

\* The earlier call was the same method with the same arguments
SameCall(earlier) ==
  /\ earlier.request.op = request.op
  /\ earlier.request.args = request.args

\* C13: after any sequence of calls by any callers the constant tables hold
\* their initial values, and every operation other than generateSnippetId
\* returns the same result for the same input whatever calls preceded it;
\* generateSnippetId changes no shared state either.
C13_TablesConstantCallsPure ==
  /\ tables = InitialTables
  /\ (pc = "return" /\ request.op # "generateSnippetId") =>
       \A i \in 1..Len(history) :
         SameCall(history[i]) => history[i].result = result

\* getLanguageIcon("cobol") has returned "FileCode" again, after
\* getLanguageName("cobol") ran in between
C13_Witness ==
  /\ Returned("getLanguageIcon")
  /\ Len(history) = 2
  /\ SameCall(history[1])
  /\ history[1].result = result
  /\ history[2].request.op = "getLanguageName"
  /\ tables = InitialTables

----------------------------------------------------------------------------
(* CodeBlock: the success toast of a press                                 *)

\* The toasts shown for press i
ToastsOf(i) == {k \in 1..Len(toasts) : toasts[k].press = i}

\* Every toast shown is the success message of a press whose copy has
\* completed, and no press has more than one
ToastsFollowCopies ==
  /\ \A k \in 1..Len(toasts) :
       /\ toasts[k].message = <<"C", "o", "d", "e", " ", "c", "o", "p", "i", "e", "d", " ", "t", "o", " ", "c", "l", "i", "p", "b", "o", "a", "r", "d">>
       /\ toasts[k].press \in 1..Len(presses)
       /\ presses[toasts[k].press].copy = "resolved"
  /\ \A i \in 1..Len(presses) : Cardinality(ToastsOf(i)) <= 1

\* A step that is a press starts a copy of the code prop, and a step that
\* shows a toast shows it for a press whose copy had completed before
PressCopiesCodeProp ==
  /\ Len(presses') > Len(presses) =>
       /\ Len(presses') = Len(presses) + 1
       /\ presses'[Len(presses')].text = props.code
       /\ presses'[Len(presses')].copy = "pending"
  /\ Len(toasts') > Len(toasts) =>
       /\ Len(toasts') = Len(toasts) + 1
       /\ toasts'[Len(toasts')].press \in 1..Len(presses)
       /\ presses[toasts'[Len(toasts')].press].copy = "resolved"

\* C14: each press of the Copy button starts a clipboard copy of exactly the
\* code prop, and the success toast "Code copied to clipboard" of a press is
\* shown only after its copy has completed: never before it resolves, never
\* when it rejects, and at most once per press.
C14_ToastOnlyAfterCopy == [](ToastsFollowCopies) /\ [][PressCopiesCodeProp]_vars

\* Two presses copied different codes; the copy of the first completed and
\* its toast is shown, the copy of the second failed and it has no toast
C14_Witness ==
  /\ Len(presses) = 2
  /\ presses[1].text = <<"a">>
  /\ presses[2].text = <<"a", "\n", "a">>
  /\ presses[1] = [text |-> <<"a">>, copy |-> "resolved", handler |-> "done"]
  /\ presses[2].copy = "rejected"
  /\ presses[2].handler = "threw"
  /\ toasts = <<[press |-> 1, message |-> <<"C", "o", "d", "e", " ", "c", "o", "p", "i", "e", "d", " ", "t", "o", " ", "c", "l", "i", "p", "b", "o", "a", "r", "d">>]>>

====
